---- MODULE Spec2Model ----
(***************************************************************************)
(* btester: the position/trade accounting engine (Strategy.open,           *)
(* Strategy.close, Position.update) and the per-step simulation loop       *)
(* (Strategy.__eval, Backtest.run) of src/btester/btester.py.              *)
(*                                                                         *)
(* Numbers.  Every quantity of the program is a Python float: a finite     *)
(* precision number or NaN, and every product and quotient is rounded to   *)
(* the nearest representable value.  A float is modelled as a tuple:       *)
(* <<n>> is the number n/SCALE (a decimal grid of SCALE steps per unit),   *)
(* <<>> is NaN.  Mul and Div round to the nearest grid point, ties to      *)
(* even, as IEEE-754 does; NaN propagates through every operation and      *)
(* every comparison with NaN is false.                                     *)
(*                                                                         *)
(* Objects.  Position objects are mutable and are shared between the       *)
(* engine's open_positions list and whatever handle the strategy keeps, so *)
(* they live in a heap `objects` (object id -> fields); open_positions     *)
(* holds ids.  list.remove compares by value (dataclass __eq__).           *)
(***************************************************************************)
EXTENDS Integers, Sequences, FiniteSets, TLC

VARIABLES
    cash,               \* Strategy.cash
    commission,         \* Strategy.commission
    date,               \* Strategy.date
    cumulative_return,  \* Strategy.cumulative_return
    cash_stock_value,   \* Strategy.cash_stock_value
    objects,            \* the Position objects ever constructed, by id
    open_positions,     \* Strategy.open_positions (ids, in list order)
    trades,             \* Strategy.trades
    returns,            \* Strategy.returns
    records,            \* Strategy.records
    index,              \* Strategy.index
    pc,                 \* where the run is
    i,                  \* the loop variable of __eval
    calls,              \* the hook invocations made so far
    ncalls,             \* how many times the hooks have called open or close
    last,               \* the call (open or close, of which position) that
                        \* produced this state, if one did, and what it
                        \* returned or raised
    backtest,           \* Backtest.cash and Backtest.commission
    results             \* the Results that Backtest.run has returned

vars == <<cash, commission, date, cumulative_return, cash_stock_value, objects,
          open_positions, trades, returns, records, index, pc, i, calls, ncalls,
          last, backtest, results>>

(***************************************************************************)
(* Bounds of the model.                                                    *)
(***************************************************************************)
SCALE == 100        \* grid steps per unit: the precision of a float
MaxSteps == 2       \* longest historical sequence
MaxPositions == 3   \* most Position objects constructed in one run
MaxCalls == 4       \* most calls of open and close in one run
Tolerance == 5      \* grid steps within which a float is 'about' a number
MaxMark == 8        \* most half units of a price update is tried with
MaxRuns == 2        \* most calls of Backtest.run on one driver

(***************************************************************************)
(* Floats.                                                                 *)
(***************************************************************************)
NaN == <<>>
F(n) == <<n>>
V(x) == x[1]
isnan(x) == x = NaN

\* n/d rounded to the nearest integer, ties to even (d > 0).
RoundDiv(n, d) ==
    LET q == n \div d
        r == n % d
    IN  IF 2 * r < d THEN q
        ELSE IF 2 * r > d THEN q + 1
        ELSE IF q % 2 = 0 THEN q ELSE q + 1

Add(a, b) == IF isnan(a) \/ isnan(b) THEN NaN ELSE F(V(a) + V(b))
Sub(a, b) == IF isnan(a) \/ isnan(b) THEN NaN ELSE F(V(a) - V(b))
Mul(a, b) == IF isnan(a) \/ isnan(b) THEN NaN ELSE F(RoundDiv(V(a) * V(b), SCALE))
Div(a, b) ==
    IF isnan(a) \/ isnan(b) THEN NaN
    ELSE IF V(b) > 0 THEN F(RoundDiv(V(a) * SCALE, V(b)))
    ELSE F(RoundDiv(-(V(a) * SCALE), -V(b)))
Lt(a, b) == ~isnan(a) /\ ~isnan(b) /\ V(a) < V(b)
Le(a, b) == ~isnan(a) /\ ~isnan(b) /\ V(a) <= V(b)
Gt(a, b) == Lt(b, a)

Zero == F(0)
One == F(SCALE)
Hundred == F(100 * SCALE)
Num(k) == F(k * SCALE)

(***************************************************************************)
(* Optional values.                                                        *)
(***************************************************************************)
None == <<>>            \* an omitted Optional[float] argument
Some(x) == <<x>>
NoSymbol == "None"      \* symbol=None
NoDate == 0             \* date=None; the timestamp of step k is k + 1
NoPosition == 0         \* position=None; object ids start at 1

(***************************************************************************)
(* class Position                                                          *)
(***************************************************************************)
Position(symbol, open_date, open_price, position_size) ==
    [symbol |-> symbol, open_date |-> open_date, last_date |-> NoDate,
     open_price |-> open_price, last_price |-> NaN,
     position_size |-> position_size, profit_loss |-> NaN,
     change_pct |-> NaN, current_value |-> NaN]

\* Mutant of update: current_value is not recomputed.
update_keeps_value(p, last_date, last_price) ==
    [p EXCEPT !.last_date = last_date,
              !.last_price = last_price,
              !.profit_loss = Mul(Sub(last_price, p.open_price), p.position_size),
              !.change_pct = Mul(Sub(Div(last_price, p.open_price), One), Hundred)]

\* Mutant of update: the date of the mark is not recorded.
update_keeps_date(p, last_date, last_price) ==
    LET profit_loss == Mul(Sub(last_price, p.open_price), p.position_size)
        change_pct == Mul(Sub(Div(last_price, p.open_price), One), Hundred)
    IN  [p EXCEPT !.last_price = last_price,
                  !.profit_loss = profit_loss,
                  !.change_pct = change_pct,
                  !.current_value =
                      Add(Mul(p.open_price, p.position_size), profit_loss)]

\* Mutant of update: the profit is counted from the last mark, not from
\* the opening price.
update_since_last_mark(p, last_date, last_price) ==
    LET base == IF isnan(p.last_price) THEN p.open_price ELSE p.last_price
        profit_loss == Mul(Sub(last_price, base), p.position_size)
        change_pct == Mul(Sub(Div(last_price, p.open_price), One), Hundred)
    IN  [p EXCEPT !.last_date = last_date,
                  !.last_price = last_price,
                  !.profit_loss = profit_loss,
                  !.change_pct = change_pct,
                  !.current_value =
                      Add(Mul(p.open_price, p.position_size), profit_loss)]

update(p, last_date, last_price) ==
    LET profit_loss == Mul(Sub(last_price, p.open_price), p.position_size)
        change_pct == Mul(Sub(Div(last_price, p.open_price), One), Hundred)
    IN  [p EXCEPT !.last_date = last_date,
                  !.last_price = last_price,
                  !.profit_loss = profit_loss,
                  !.change_pct = change_pct,
                  !.current_value =
                      Add(Mul(p.open_price, p.position_size), profit_loss)]

(***************************************************************************)
(* class Trade                                                             *)
(***************************************************************************)
Trade(symbol, open_date, close_date, open_price, close_price, position_size, profit_loss, change_pct, trade_commission, cum_return) ==
    [symbol |-> symbol, open_date |-> open_date, close_date |-> close_date,
     open_price |-> open_price, close_price |-> close_price,
     position_size |-> position_size, profit_loss |-> profit_loss,
     change_pct |-> change_pct, trade_commission |-> trade_commission,
     cumulative_return |-> cum_return]

(***************************************************************************)
(* The engine state that open and close read and write, as one value.      *)
(***************************************************************************)
Engine ==
    [cash |-> cash, cash_stock_value |-> cash_stock_value,
     cumulative_return |-> cumulative_return, objects |-> objects,
     open_positions |-> open_positions, trades |-> trades]

Outcome(e, ret) == [e |-> e, ret |-> ret]

(***************************************************************************)
(* Strategy.open                                                           *)
(***************************************************************************)
\* Mutant of open_size: an omitted size is sized without the commission.
open_size_without_commission(e, price, size) ==
    IF size = None THEN Div(e.cash, price)
    ELSE size[1]

open_size(e, price, size) ==
    IF size = None THEN Div(e.cash, Mul(price, Add(One, commission)))
    ELSE size[1]

\* Mutant of open_cost: the commission is left out of a given size's cost.
open_cost_without_commission(e, price, size) ==
    IF size = None THEN e.cash
    ELSE Mul(size[1], price)

open_cost(e, price, size) ==
    IF size = None THEN e.cash
    ELSE Mul(Mul(size[1], price), Add(One, commission))

open_rejects_arguments(price, size) ==
    isnan(price) \/ Le(price, Zero)
        \/ (size # None /\ (isnan(size[1]) \/ Le(size[1], Zero)))

open_rejects_size(e, price, size) ==
    isnan(open_size(e, price, size)) \/ Le(open_size(e, price, size), Zero)
        \/ Lt(e.cash, open_cost(e, price, size))

open_position(e, price, size, symbol) ==
    LET position == update(Position(symbol, date, price, open_size(e, price, size)),
                           date, price)
    IN  [e EXCEPT !.cash_stock_value = Add(e.cash_stock_value, position.current_value),
                  !.cash = Sub(e.cash, open_cost(e, price, size)),
                  !.objects = Append(e.objects, position),
                  !.open_positions = Append(e.open_positions, Len(e.objects) + 1)]

\* Mutant of open: the cost is taken from the cash before the size check.
open_pays_before_check(e, price, size, symbol) ==
    IF open_rejects_arguments(price, size) THEN Outcome(e, "False")
    ELSE IF open_rejects_size(e, price, size)
    THEN Outcome([e EXCEPT !.cash = Sub(e.cash, open_cost(e, price, size))], "False")
    ELSE Outcome(open_position(e, price, size, symbol), "True")

open(e, price, size, symbol) ==
    IF open_rejects_arguments(price, size) THEN Outcome(e, "False")
    ELSE IF open_rejects_size(e, price, size) THEN Outcome(e, "False")
    ELSE Outcome(open_position(e, price, size, symbol), "True")

(***************************************************************************)
(* Strategy.close                                                          *)
(***************************************************************************)
\* list.remove(x): the position in the list of the first element equal to x
\* (dataclass __eq__ compares the fields), 0 when there is none (ValueError).
list_index(e, p) ==
    LET hits == {k \in 1..Len(e.open_positions) : e.objects[e.open_positions[k]] = p}
    IN  IF hits = {} THEN 0 ELSE CHOOSE k \in hits : \A h \in hits : k <= h

list_remove(seq, k) ==
    [j \in 1..(Len(seq) - 1) |-> IF j < k THEN seq[j] ELSE seq[j + 1]]

\* Mutant of trade_commission: the closing side's commission only.
trade_commission_of_close(p) ==
    Mul(Mul(p.last_price, p.position_size), commission)

trade_commission(p) ==
    Mul(Mul(Add(p.open_price, p.last_price), p.position_size), commission)

\* Mutant of close_cost: the commission of both sides is taken at the close.
close_cost_of_both_sides(p) ==
    Mul(Mul(Add(p.open_price, p.last_price), p.position_size), commission)

close_cost(p) ==
    Mul(Mul(p.last_price, p.position_size), commission)

\* The branch of close that is given a position (lines 201-215), in the
\* order of its statements; p is the position after the update of line 202.
new_cumulative_return(e, p) ==
    Add(e.cumulative_return, Sub(p.profit_loss, trade_commission(p)))

new_trade(e, p) ==
    Trade(p.symbol, p.open_date, p.last_date, p.open_price, p.last_price,
          p.position_size, p.profit_loss, p.change_pct, trade_commission(p),
          new_cumulative_return(e, p))

\* Lines 201-211: the engine when list.remove is called.
close_records(e, position, p) ==
    [e EXCEPT !.cash_stock_value =
                  Sub(e.cash_stock_value, e.objects[position].current_value),
              !.objects[position] = p,
              !.cumulative_return = new_cumulative_return(e, p),
              !.trades = Append(e.trades, new_trade(e, p))]

\* Lines 212-215: list.remove raises, or removes the k-th element and the
\* proceeds are added to the cash.
close_removes(e1, p, k) ==
    IF k = 0 THEN Outcome(e1, "ValueError")
    ELSE Outcome([e1 EXCEPT !.open_positions = list_remove(e1.open_positions, k),
                            !.cash = Add(e1.cash, Sub(p.current_value, close_cost(p)))],
                 "True")

close_updated(e, position, p) ==
    close_removes(close_records(e, position, p), p,
                  list_index(close_records(e, position, p), p))

close_position(e, price, position) ==
    close_updated(e, position, update(e.objects[position], date, price))

\* Mutant of close_matching: the loop runs over the list itself, which the
\* closes shrink under it.
RECURSIVE close_matching_live(_, _, _, _, _)
close_matching_live(e, snapshot, k, price, symbol) ==
    IF k > Len(e.open_positions) THEN Outcome(e, "True")
    ELSE IF e.objects[e.open_positions[k]].symbol = symbol
    THEN LET r == close_position(e, price, e.open_positions[k])
         IN  IF r.ret = "ValueError" THEN r
             ELSE close_matching_live(r.e, snapshot, k + 1, price, symbol)
    ELSE close_matching_live(e, snapshot, k + 1, price, symbol)

RECURSIVE close_matching(_, _, _, _, _)
close_matching(e, snapshot, k, price, symbol) ==
    IF k > Len(snapshot) THEN Outcome(e, "True")
    ELSE IF e.objects[snapshot[k]].symbol = symbol
    THEN LET r == close_position(e, price, snapshot[k])
         IN  IF r.ret = "ValueError" THEN r
             ELSE close_matching(r.e, snapshot, k + 1, price, symbol)
    ELSE close_matching(e, snapshot, k + 1, price, symbol)

\* Mutant of close_rejects_price: < for <=, a price of 0 is let through.
close_rejects_negative_price(price) == isnan(price) \/ Lt(price, Zero)

close_rejects_price(price) == isnan(price) \/ Le(price, Zero)

\* Mutant of close: a filter that matches no open position is a failure.
close_needs_a_match(e, price, symbol, position) ==
    IF close_rejects_price(price) THEN Outcome(e, "False")
    ELSE IF position = NoPosition
    THEN IF \A k \in 1..Len(e.open_positions) :
                e.objects[e.open_positions[k]].symbol # symbol
         THEN Outcome(e, "False")
         ELSE close_matching(e, e.open_positions, 1, price, symbol)
    ELSE close_position(e, price, position)

close(e, price, symbol, position) ==
    IF close_rejects_price(price) THEN Outcome(e, "False")
    ELSE IF position = NoPosition
    THEN close_matching(e, e.open_positions, 1, price, symbol)
    ELSE close_position(e, price, position)

(***************************************************************************)
(* Strategy.__eval: the per-step mark-to-market (lines 230-233).           *)
(***************************************************************************)
close_key(symbol) == <<symbol, "Close">>
unkeyed_close == <<"Close">>

\* record[k] raises KeyError when the record has neither key.
has_close(record, symbol) ==
    close_key(symbol) \in DOMAIN record \/ unkeyed_close \in DOMAIN record

last_price_of(record, symbol) ==
    IF close_key(symbol) \in DOMAIN record THEN record[close_key(symbol)]
    ELSE record[unkeyed_close]

\* The loop over open_positions from its k-th element on: the objects after
\* it, and whether it raised.
\* Mutant of mark_to_market: the positions opened in the current step are
\* left at their opening mark, as if the loop had run before the hook.
RECURSIVE mark_to_market_before_hook(_, _, _, _)
mark_to_market_before_hook(objs, positions, k, record) ==
    IF k > Len(positions) THEN [objects |-> objs, raised |-> FALSE]
    ELSE LET id == positions[k] IN
         IF ~has_close(record, objs[id].symbol)
         THEN [objects |-> objs, raised |-> TRUE]
         ELSE LET last_price == last_price_of(record, objs[id].symbol) IN
              IF Gt(last_price, Zero) /\ objs[id].open_date # date
              THEN mark_to_market_before_hook(
                       [objs EXCEPT ![id] = update(objs[id], date, last_price)],
                       positions, k + 1, record)
              ELSE mark_to_market_before_hook(objs, positions, k + 1, record)

RECURSIVE mark_to_market(_, _, _, _)
mark_to_market(objs, positions, k, record) ==
    IF k > Len(positions) THEN [objects |-> objs, raised |-> FALSE]
    ELSE LET id == positions[k] IN
         IF ~has_close(record, objs[id].symbol)
         THEN [objects |-> objs, raised |-> TRUE]
         ELSE LET last_price == last_price_of(record, objs[id].symbol) IN
              IF Gt(last_price, Zero)
              THEN mark_to_market([objs EXCEPT ![id] = update(objs[id], date, last_price)],
                                  positions, k + 1, record)
              ELSE mark_to_market(objs, positions, k + 1, record)

\* Mutant of sum_current_value: the positions are summed at what they cost.
RECURSIVE sum_cost_basis(_, _, _)
sum_cost_basis(objs, positions, n) ==
    IF n = 0 THEN Zero
    ELSE Add(sum_cost_basis(objs, positions, n - 1),
             Mul(objs[positions[n]].open_price, objs[positions[n]].position_size))

\* sum(position.current_value for position in open_positions), over the first
\* n positions: sum starts from 0 and adds from the left.
RECURSIVE sum_current_value(_, _, _)
sum_current_value(objs, positions, n) ==
    IF n = 0 THEN Zero
    ELSE Add(sum_current_value(objs, positions, n - 1),
             objs[positions[n]].current_value)

(***************************************************************************)
(* The inputs: what Backtest is constructed with and what the strategy's   *)
(* hooks call.                                                             *)
(***************************************************************************)
InitialCash == {Num(9)}
Commissions == {Zero, F(SCALE \div 10)}
Symbols == {NoSymbol, "A"}

\* Single-instrument frames ('Close') that quote every step, of one row and
\* of two rows.
Quote == [k \in {unkeyed_close} |-> Num(2)]
QuotedFrames == {<<Quote>>, <<Quote, Quote>>}

\* The single- and multi-instrument (('A', 'Close')) frames of at most
\* MaxSteps rows, with steps that have no usable quote: every row of a frame
\* has the same columns.
AllFrames ==
    UNION {UNION {[1..n -> [columns -> {NaN, Zero, Num(-1), Num(2)}]] :
                      columns \in {{unkeyed_close}, {close_key("A")}}} :
               n \in 0..MaxSteps}

OpenPrices == {NaN, Zero, Num(-1), Num(3)}
OpenSizes == {None, Some(NaN), Some(Zero), Some(Num(-1)), Some(Num(1))}
ClosePrices == {NaN, Zero, Num(-1), Num(3), Num(4)}
\* The calls a strategy makes: every valid call, and one call for each kind
\* of invalid argument.
OpenCalls ==
    {c \in OpenPrices \X OpenSizes \X Symbols :
        \/ Gt(c[1], Zero) /\ (c[2] = None \/ Gt(c[2][1], Zero))
        \/ c[3] = NoSymbol /\ c[2] = Some(Num(1))
        \/ c[3] = NoSymbol /\ c[1] = Num(3)}
CloseCalls ==
    {c \in ClosePrices \X Symbols : Gt(c[1], Zero) \/ c[2] = NoSymbol}
\* The calls of a strategy that only makes valid ones.
RunOpenSizes == {Some(Num(1))}
RunOpenPrice == Num(3)
RunClosePrice == Num(4)

NoCall == [op |-> "none", position |-> NoPosition, ret |-> "None"]

(***************************************************************************)
(* Backtest.run: a fresh Strategy (Strategy.__init__) configured with the  *)
(* driver's cash, commission, records and index, about to enter __eval.    *)
(***************************************************************************)
ConstructWith(cashes, frames, commissions) ==
    /\ cash \in cashes
    /\ commission \in commissions
    /\ records \in frames
    /\ index = [k \in 1..Len(records) |-> k]
    /\ date = NoDate
    /\ cumulative_return = Zero
    /\ cash_stock_value = Zero
    /\ objects = <<>>
    /\ open_positions = <<>>
    /\ trades = <<>>
    /\ returns = <<>>
    /\ pc = "NotStarted"
    /\ i = 0
    /\ calls = <<>>
    /\ ncalls = 0
    /\ last = NoCall
    /\ backtest = [cash |-> cash, commission |-> commission]
    /\ results = <<>>

Construct(frames, commissions) == ConstructWith(InitialCash, frames, commissions)

InHook == pc = "next"

SetEngine(e) ==
    /\ cash' = e.cash
    /\ cash_stock_value' = e.cash_stock_value
    /\ cumulative_return' = e.cumulative_return
    /\ objects' = e.objects
    /\ open_positions' = e.open_positions
    /\ trades' = e.trades

\* A hook calls self.open(price, size, symbol).
CallOpen(price, size, symbol) ==
    /\ InHook
    /\ ncalls < MaxCalls
    /\ ncalls' = ncalls + 1
    /\ LET r == open(Engine, price, size, symbol) IN
        /\ Len(r.e.objects) <= MaxPositions
        /\ SetEngine(r.e)
        /\ last' = [op |-> "open", position |-> NoPosition, ret |-> r.ret]
    /\ UNCHANGED <<commission, date, returns, records, index, pc, i, calls,
                   backtest, results>>

\* A hook calls self.close(price, symbol, position); position is None or any
\* Position object the strategy has seen.  An exception leaves the hook and
\* __eval.
CallClose(price, symbol, position) ==
    /\ InHook
    /\ ncalls < MaxCalls
    /\ ncalls' = ncalls + 1
    /\ LET r == close(Engine, price, symbol, position) IN
        /\ SetEngine(r.e)
        /\ last' = [op |-> "close", position |-> position, ret |-> r.ret]
        /\ pc' = IF r.ret = "ValueError" THEN "raised" ELSE pc
    /\ UNCHANGED <<commission, date, returns, records, index, i, calls,
                   backtest, results>>

\* The head of the for loop for step k (0-based): date, then next(k, record).
EnterStep(k) ==
    IF k < Len(records)
    THEN /\ date' = index[k + 1]
         /\ i' = k
         /\ calls' = Append(calls, <<"next", k, records[k + 1], index[k + 1]>>)
         /\ pc' = "next"
    ELSE /\ pc' = "Finished"
         /\ UNCHANGED <<date, i, calls>>

\* __eval is entered: the two resets, then init().
Eval ==
    /\ pc = "NotStarted"
    /\ cumulative_return' = cash
    /\ cash_stock_value' = Zero
    /\ calls' = Append(calls, <<"init">>)
    /\ pc' = "init"
    /\ last' = NoCall
    /\ UNCHANGED <<cash, commission, date, objects, open_positions, trades,
                   returns, records, index, i, ncalls, backtest, results>>

\* init() returns: the loop begins.
InitReturn ==
    /\ pc = "init"
    /\ EnterStep(0)
    /\ last' = NoCall
    /\ UNCHANGED <<cash, commission, cumulative_return, cash_stock_value,
                   objects, open_positions, trades, returns, records, index,
                   ncalls, backtest, results>>

\* next(i, record) returns: the rest of the loop body, then the next step.
NextReturn ==
    /\ pc = "next"
    /\ last' = NoCall
    /\ LET m == mark_to_market(objects, open_positions, 1, records[i + 1]) IN
        /\ objects' = m.objects
        /\ IF m.raised
           THEN /\ pc' = "raised"
                /\ UNCHANGED <<cash_stock_value, returns, date, i, calls>>
           ELSE /\ cash_stock_value' = sum_current_value(m.objects, open_positions, Len(open_positions))
                /\ returns' = Append(returns,
                                Add(cash, sum_current_value(m.objects, open_positions, Len(open_positions))))
                /\ EnterStep(i + 1)
    /\ UNCHANGED <<cash, commission, cumulative_return, open_positions, trades,
                   records, index, ncalls, backtest, results>>

Run == Eval \/ InitReturn \/ NextReturn

Range(seq) == {seq[k] : k \in 1..Len(seq)}

(***************************************************************************)
(* Spec: the engine's operations.  The strategy calls open and close with  *)
(* every kind of argument, valid or not, on frames that quote every step;  *)
(* it closes by instrument and by handle to an open position.              *)
(***************************************************************************)
Init == Construct(QuotedFrames, Commissions)

Next ==
    \/ Run
    \/ \E c \in OpenCalls : CallOpen(c[1], c[2], c[3])
    \/ \E c \in CloseCalls : CallClose(c[1], c[2], NoPosition)
    \/ \E price \in ClosePrices, position \in Range(open_positions) :
            CallClose(price, NoSymbol, position)

Spec == Init /\ [][Next]_vars

(***************************************************************************)
(* SpecRun: the run loop.  The strategy makes valid calls only, on every   *)
(* kind of frame.                                                          *)
(***************************************************************************)
InitRun == Construct(AllFrames, {F(SCALE \div 10)})

NextRun ==
    \/ Run
    \/ \E size \in RunOpenSizes, symbol \in Symbols :
            CallOpen(RunOpenPrice, size, symbol)
    \/ \E symbol \in Symbols :
            CallClose(RunClosePrice, symbol, NoPosition)

SpecRun == InitRun /\ [][NextRun]_vars

(***************************************************************************)
(* Properties.                                                             *)
(***************************************************************************)
\* The Position objects in the open set, in list order.
OpenSet == [k \in 1..Len(open_positions) |-> objects[open_positions[k]]]

InvalidPrice(price) == isnan(price) \/ Le(price, Zero)

\* The cases in which open must fail: an invalid price, an invalid given
\* size, no cash to size an omitted size from, or a cost above the cash.
OpenMustFail(price, size) ==
    \/ InvalidPrice(price)
    \/ size # None /\ (isnan(size[1]) \/ Le(size[1], Zero))
    \/ size = None /\ Le(cash, Zero)
    \/ size # None /\ Lt(cash, Mul(Mul(size[1], price), Add(One, commission)))

\* C1: a failed open is a no-op.  In every reachable engine state, a call of
\* open in one of the failure cases returns false, and a call of open that
\* returns false leaves the cash, the open set (the list and the positions'
\* fields), the trade log, the tracked open-position value and
\* cumulative_return exactly as they were.
C1_FailedOpenIsNoOp ==
    \A price \in OpenPrices, size \in OpenSizes, symbol \in Symbols :
        LET r == open(Engine, price, size, symbol) IN
            /\ OpenMustFail(price, size) => r.ret = "False"
            /\ r.ret = "False" => r.e = Engine

\* C1 witness: an open has just failed in an engine that holds positions,
\* trades and no cash.
C1_Witness ==
    /\ last.op = "open" /\ last.ret = "False"
    /\ open_positions # <<>> /\ trades # <<>> /\ cash = Zero

\* Every Position object the strategy may hold a handle to.
Handles == 1..Len(objects)

\* C2: close with a price that is 0, NaN or negative returns false and
\* changes nothing, with an instrument filter and with a position handle,
\* however many positions are open.
C2_InvalidCloseIsNoOp ==
    \A price \in ClosePrices, symbol \in Symbols, position \in {NoPosition} \cup Handles :
        LET r == close(Engine, price, symbol, position) IN
            InvalidPrice(price) => r.ret = "False" /\ r.e = Engine

\* C2 witness: a close by handle has just failed with two positions open.
C2_Witness ==
    /\ last.op = "close" /\ last.ret = "False" /\ last.position # NoPosition
    /\ Len(open_positions) = 2

\* What a successful open adds: one Position object, appended to the heap
\* and to the open set, everything else of the ledger but the cash and the
\* tracked value as it was.
AddsOnePosition(r) ==
    /\ Len(r.e.objects) = Len(objects) + 1
    /\ \A id \in Handles : r.e.objects[id] = objects[id]
    /\ r.e.open_positions = Append(open_positions, Len(objects) + 1)
    /\ r.e.trades = trades
    /\ r.e.cumulative_return = cumulative_return

NominalCost(size, price) == Mul(Mul(size, price), Add(One, commission))

\* C3 as claimed: every successful open decreases cash by exactly
\* size*price*(1+commission) and adds exactly one position of that size and
\* open price; with the size omitted the resolved size satisfies
\* size*price*(1+commission) = cash_before and cash is exactly 0 afterwards;
\* an open with a given size whose cost equals the cash succeeds.
C3_AsClaimed ==
    InHook => \A price \in OpenPrices, size \in OpenSizes, symbol \in Symbols :
        LET r == open(Engine, price, size, symbol)
            p == r.e.objects[Len(r.e.objects)]
        IN  /\ r.ret = "True" =>
                /\ AddsOnePosition(r)
                /\ p.open_price = price /\ p.symbol = symbol
                /\ size # None => p.position_size = size[1]
                /\ r.e.cash = Sub(cash, NominalCost(p.position_size, price))
                /\ size = None =>
                    /\ NominalCost(p.position_size, price) = cash
                    /\ r.e.cash = Zero
            /\ (/\ ~OpenMustFail(price, size) /\ size # None
                /\ NominalCost(size[1], price) = cash) => r.ret = "True"

\* C3 as amended: every successful open with a given size decreases cash by
\* exactly size*price*(1+commission); with the size omitted the resolved size
\* is the quotient cash_before / (price*(1+commission)) as the division rounds
\* it, the cost charged is cash_before itself and cash is exactly 0
\* afterwards; either way exactly one position of the resolved size and the
\* open price is added to the open set; an open with a given size whose cost
\* equals the cash succeeds.
C3_OpenConservesCash ==
    \A price \in OpenPrices, size \in OpenSizes, symbol \in Symbols :
        LET r == open(Engine, price, size, symbol)
            p == r.e.objects[Len(r.e.objects)]
        IN  /\ r.ret = "True" =>
                /\ AddsOnePosition(r)
                /\ p.open_price = price /\ p.symbol = symbol
                /\ size # None =>
                    /\ p.position_size = size[1]
                    /\ r.e.cash = Sub(cash, NominalCost(size[1], price))
                /\ size = None =>
                    /\ p.position_size = Div(cash, Mul(price, Add(One, commission)))
                    /\ r.e.cash = Zero
            /\ (/\ ~OpenMustFail(price, size) /\ size # None
                /\ NominalCost(size[1], price) = cash) => r.ret = "True"

\* C3 witness: the first open of a run, with the size omitted, has spent the
\* whole cash on a size whose nominal cost is not the cash it spent.
C3_Witness ==
    /\ last.op = "open" /\ last.ret = "True"
    /\ Len(objects) = 1 /\ open_positions = <<1>> /\ cash = Zero
    /\ cumulative_return \in InitialCash
    /\ NominalCost(objects[1].position_size, objects[1].open_price) # cumulative_return

\* The step is a close of one position, by its handle, that returned true.
ClosedByHandle == last'.op = "close" /\ last'.ret = "True" /\ last'.position # NoPosition

\* C4 as claimed: a successful close of one position at price p increases
\* cash by exactly current_value - p*size*commission, where current_value is
\* the position's value marked at p, and removes that position from the open
\* set, leaving the other open positions in it.
C4_AsClaimed ==
    [][ClosedByHandle =>
        LET p == objects'[last'.position] IN
            /\ cash' = Add(cash, Sub(p.current_value,
                                     Mul(Mul(p.last_price, p.position_size), commission)))
            /\ open_positions' = SelectSeq(open_positions, LAMBDA id : id # last'.position)
       ]_vars

\* C5: every Trade appended by a close of one position at price p has
\* trade_commission = (open_price + p) * position_size * commission,
\* profit_loss = (p - open_price) * position_size and close_price = p, and
\* its cumulative_return is the engine's cumulative_return before the close
\* plus profit_loss minus trade_commission, which is also the engine's
\* cumulative_return after the close.
C5_TradeFields ==
    \A price \in ClosePrices, position \in Handles :
        LET r == close(Engine, price, NoSymbol, position)
            o == objects[position]
            t == r.e.trades[Len(r.e.trades)]
        IN  ~InvalidPrice(price) =>
                /\ r.e.trades = Append(trades, t)
                /\ t.trade_commission =
                       Mul(Mul(Add(o.open_price, price), o.position_size), commission)
                /\ t.profit_loss = Mul(Sub(price, o.open_price), o.position_size)
                /\ t.close_price = price
                /\ t.cumulative_return =
                       Add(cumulative_return, Sub(t.profit_loss, t.trade_commission))
                /\ r.e.cumulative_return = t.cumulative_return

\* C5 witness: a position opened in an earlier step has just been closed by
\* its handle, at a profit or a loss and for a commission.
C5_Witness ==
    /\ last.op = "close" /\ last.ret = "True" /\ last.position # NoPosition
    /\ trades # <<>>
    /\ LET t == trades[Len(trades)] IN
           /\ t.open_date # t.close_date
           /\ t.profit_loss # Zero
           /\ t.trade_commission # Zero
           /\ cumulative_return = t.cumulative_return

\* The open positions (ids, in list order) of an instrument, and the others.
Matched(symbol) == SelectSeq(open_positions, LAMBDA id : objects[id].symbol = symbol)
Others(symbol) == SelectSeq(open_positions, LAMBDA id : objects[id].symbol # symbol)

\* C6: close(price, instrument) without a handle closes every open position
\* of that instrument (the absent instrument matches the positions with no
\* instrument): it appends one Trade per matched position, in the order the
\* positions were opened, each with its own commission, none skipped and
\* none twice; the positions of other instruments stay in the open set,
\* unchanged and in their relative order.
C6_CloseByInstrument ==
    \A price \in ClosePrices, symbol \in Symbols :
        LET r == close(Engine, price, symbol, NoPosition)
            matched == Matched(symbol)
        IN  ~InvalidPrice(price) =>
                /\ r.ret = "True"
                /\ Len(r.e.trades) = Len(trades) + Len(matched)
                /\ \A k \in 1..Len(trades) : r.e.trades[k] = trades[k]
                /\ \A k \in 1..Len(matched) :
                       LET t == r.e.trades[Len(trades) + k]
                           o == objects[matched[k]]
                       IN  /\ t.symbol = symbol
                           /\ t.open_date = o.open_date
                           /\ t.open_price = o.open_price
                           /\ t.position_size = o.position_size
                           /\ t.close_price = price
                           /\ t.trade_commission =
                                  Mul(Mul(Add(o.open_price, price), o.position_size),
                                      commission)
                /\ r.e.open_positions = Others(symbol)
                /\ \A id \in Range(Others(symbol)) : r.e.objects[id] = objects[id]

\* C6 witness: three positions were opened and one close by instrument has
\* closed two of them and left the third.
C6_Witness ==
    /\ last.op = "close" /\ last.ret = "True" /\ last.position = NoPosition
    /\ ncalls = 4 /\ Len(objects) = 3
    /\ Len(trades) = 2 /\ Len(open_positions) = 1
    /\ trades[1].symbol = trades[2].symbol
    /\ objects[open_positions[1]].symbol # trades[1].symbol

\* C7: close with a valid price and an instrument that no open position has
\* (an empty open set included) returns true and leaves the cash, the open
\* set, the trade log, cumulative_return and the tracked value unchanged.
C7_NoMatchIsSuccess ==
    \A price \in ClosePrices, symbol \in Symbols :
        LET r == close(Engine, price, symbol, NoPosition) IN
            (~InvalidPrice(price) /\ Matched(symbol) = <<>>) =>
                r.ret = "True" /\ r.e = Engine

\* C7 witness: the only calls of the run were an open and a close by
\* instrument that returned true and closed nothing.
C7_Witness ==
    /\ last.op = "close" /\ last.ret = "True" /\ last.position = NoPosition
    /\ ncalls = 2 /\ Len(open_positions) = 1 /\ trades = <<>>

\* The sum of current_value over a sequence of positions.
RECURSIVE SumOfValues(_)
SumOfValues(ps) ==
    IF ps = <<>> THEN Zero ELSE Add(Head(ps).current_value, SumOfValues(Tail(ps)))

\* The state is the one a step's equity entry was appended in: the loop body
\* of step Len(returns) - 1 has just ended.
StepEnded == last = NoCall /\ returns # <<>> /\ pc \in {"next", "Finished"}

\* C8: after a run over N steps the equity series has N entries, one
\* appended per step in step order and never changed afterwards, and the
\* entry of step i, when it is appended, is the cash after
\* step i's hook plus the sum of current_value over the positions still open
\* after step i's mark-to-market; a position closed during the step
\* contributes through the cash only.
C8_EquitySeries ==
    /\ [](/\ pc = "next" => Len(returns) = i
          /\ pc = "Finished" => Len(returns) = Len(records)
          /\ StepEnded => returns[Len(returns)] = Add(cash, SumOfValues(OpenSet)))
    /\ [][\/ returns' = returns
          \/ /\ pc = "next" /\ Len(returns') = i + 1
             /\ SubSeq(returns', 1, i) = returns]_vars

\* C8 witness: the run has finished two steps with a trade made and a
\* position still open, whose value is not what it cost.
C8_Witness ==
    /\ pc = "Finished" /\ Len(returns) = 2
    /\ trades # <<>> /\ open_positions # <<>>
    /\ SumOfValues(OpenSet) # Zero
    /\ \E k \in 1..Len(OpenSet) : OpenSet[k].profit_loss # Zero

\* The positions opened in the step that has just ended.
OpenedInStep == {id \in Range(open_positions) : objects[id].open_date = index[Len(returns)]}

\* The closing price the step that has just ended has for a position.
StepClose(id) == last_price_of(records[Len(returns)], objects[id].symbol)

\* C9 as claimed: a position opened by the hook in step i, at any price, is
\* marked to step i's closing price in the same step, before the step's
\* equity entry is appended.
C9_AsClaimed ==
    StepEnded =>
        /\ \A id \in OpenedInStep : objects[id].last_price = StepClose(id)
        /\ returns[Len(returns)] = Add(cash, SumOfValues(OpenSet))

\* C9 as amended: a position opened by the hook in step i, at any price, is
\* marked in the same step to step i's closing price when that price is
\* greater than 0, before the step's equity entry is appended, so that the
\* entry reflects the closing price; when the step's closing price is 0,
\* negative or NaN the position keeps the mark of its opening price.
C9_MarkedInSameStep ==
    StepEnded =>
        /\ \A id \in OpenedInStep :
               LET p == objects[id] IN
                   IF Gt(StepClose(id), Zero)
                   THEN /\ p.last_price = StepClose(id)
                        /\ p.last_date = index[Len(returns)]
                        /\ p.current_value =
                               Add(Mul(p.open_price, p.position_size),
                                   Mul(Sub(StepClose(id), p.open_price), p.position_size))
                   ELSE p.last_price = p.open_price
        /\ returns[Len(returns)] = Add(cash, SumOfValues(OpenSet))

\* C9 witness: a step has ended with a position opened in it marked to the
\* step's closing price, which is not the price it was opened at.
C9_Witness ==
    /\ StepEnded
    /\ \E id \in OpenedInStep :
           /\ Gt(StepClose(id), Zero)
           /\ objects[id].last_price = StepClose(id)
           /\ objects[id].last_price # objects[id].open_price

\* The hook invocations of a run that has entered step k (0-based): init,
\* then next(0, record 0) ... next(k, record k), each at its step's timestamp.
HooksUpTo(k) ==
    <<<<"init">>>> \o [j \in 1..(k + 1) |-> <<"next", j - 1, records[j], index[j]>>]

\* C10 as claimed: a run always goes on to Finished after consuming the whole
\* sequence, whatever open and close calls the hooks make: the hooks called
\* are init once, then next(0, record 0) ... next(N-1, record N-1) in that
\* order; before init the cumulative_return is reset to the initial cash and
\* the tracked open-position value to 0; the current timestamp during
\* next(i) is step i's timestamp.
C10_AsClaimed ==
    /\ pc # "raised"
    /\ pc = "init" => /\ calls = <<<<"init">>>>
                      /\ cumulative_return = cash /\ cumulative_return \in InitialCash
                      /\ cash_stock_value = Zero
    /\ pc = "next" => calls = HooksUpTo(i) /\ date = index[i + 1]
    /\ pc = "Finished" => calls = HooksUpTo(Len(records) - 1)

\* The step is the rest of the loop body after next has returned: the
\* mark-to-market of the step and, unless it raised, the equity entry.
MarkToMarketStep == pc = "next" /\ last' = NoCall

\* C11 as claimed: the per-step mark-to-market never raises: a position whose
\* step closing price is 0, missing, NaN or negative keeps its prior mark
\* unchanged and the run continues; a position whose price is greater than 0
\* is updated to it; the price is the instrument-keyed closing price when the
\* record has one, otherwise the unkeyed closing price.
C11_AsClaimed ==
    [][MarkToMarketStep =>
        /\ pc' # "raised"
        /\ \A id \in Range(open_positions) :
               LET record == records[i + 1]
                   symbol == objects[id].symbol
                   price == IF close_key(symbol) \in DOMAIN record
                            THEN record[close_key(symbol)]
                            ELSE IF unkeyed_close \in DOMAIN record
                            THEN record[unkeyed_close]
                            ELSE NaN
               IN  IF Gt(price, Zero)
                   THEN objects'[id] = update(objects[id], date, price)
                   ELSE objects'[id] = objects[id]
       ]_vars

(***************************************************************************)
(* SpecHandles: as Spec, and the strategy also closes by handles it has    *)
(* kept to positions that are no longer in the open set.                   *)
(***************************************************************************)
StaleHandles == Handles \ Range(open_positions)

NextHandles ==
    \/ Next
    \/ \E price \in ClosePrices, position \in StaleHandles :
            CallClose(price, NoSymbol, position)

SpecHandles == Init /\ [][NextHandles]_vars

\* C12 as claimed: every call of open or close, in any reachable engine state
\* and with any arguments, a handle to a position that was already closed
\* included, completes with a boolean result and never raises, and a call
\* that does not succeed leaves the engine state as it was.
C12_AsClaimed ==
    [][last'.op \in {"open", "close"} =>
        /\ last'.ret \in {"True", "False"}
        /\ last'.ret = "False" => Engine' = Engine
       ]_vars

\* C13 as claimed: over any sequence of open and close calls, by instrument
\* or by handle, repeated closes with the same handle included, each opened
\* position produces exactly one Trade, created when it leaves the open set:
\* the number of successful opens is the size of the open set plus the length
\* of the trade log, no position is in the open set twice, and a position
\* that a close has just turned into a Trade is not in the open set.
C13_AsClaimed ==
    /\ Len(objects) = Len(open_positions) + Len(trades)
    /\ \A j, k \in 1..Len(open_positions) :
           open_positions[j] = open_positions[k] => j = k
    /\ (last.op = "close" /\ last.ret = "True" /\ last.position # NoPosition)
           => last.position \notin Range(open_positions)

(***************************************************************************)
(* SpecScenario: the two end-to-end runs of src/tests/test_backtest.py.    *)
(* The frames carry the 'Open' column the strategies read their prices     *)
(* from; each strategy is the deterministic hook of its test.              *)
(***************************************************************************)
open_key(symbol) == <<symbol, "Open">>
unkeyed_open == <<"Open">>

SingleRow(o, c) == (unkeyed_open :> Num(o)) @@ (unkeyed_close :> Num(c))
MultiRow(ao, ac, bo, bc) ==
    (open_key("AAA") :> Num(ao)) @@ (close_key("AAA") :> Num(ac))
        @@ (open_key("BBB") :> Num(bo)) @@ (close_key("BBB") :> Num(bc))

SINGLE_ASSET_DATA == <<SingleRow(100, 100), SingleRow(200, 200), SingleRow(300, 300)>>
MULTIPLE_ASSETS_DATA ==
    <<MultiRow(100, 100, 2850, 2840), MultiRow(200, 200, 2835, 2815),
      MultiRow(300, 300, 2820, 2810)>>

\* cash=10000.0 and commission=0.01 in the tests; the runs are also made at
\* the other whole-percent rates up to 7%.
ScenarioCash == {Num(10000)}
ScenarioCommissions == {F((k * SCALE) \div 100) : k \in 0..7}

\* SingleAssetStrategy.next and MultipleAssetsStrategy.next: the call the hook
\* of step i makes.
SingleAssetStrategy ==
    /\ records = SINGLE_ASSET_DATA
    /\ \/ i = 0 /\ CallOpen(records[i + 1][unkeyed_open], None, NoSymbol)
       \/ i = 2 /\ CallClose(records[i + 1][unkeyed_open], NoSymbol, NoPosition)

MultipleAssetsStrategy ==
    /\ records = MULTIPLE_ASSETS_DATA
    /\ \/ i = 0 /\ CallOpen(records[i + 1][open_key("AAA")], Some(Num(10)), "AAA")
       \/ i = 1 /\ CallOpen(records[i + 1][open_key("BBB")], Some(Num(1)), "BBB")
       \/ i = 2 /\ CallClose(records[i + 1][open_key("AAA")], "AAA", NoPosition)

\* The hook of step i has a call to make.
HookCalls == records = MULTIPLE_ASSETS_DATA \/ i \in {0, 2}

\* next runs to its end before the rest of the loop body does.
HookCall == InHook /\ last = NoCall /\ (SingleAssetStrategy \/ MultipleAssetsStrategy)
HookReturn == (last # NoCall \/ ~HookCalls) /\ NextReturn

InitScenario ==
    ConstructWith(ScenarioCash, {SINGLE_ASSET_DATA, MULTIPLE_ASSETS_DATA},
                  ScenarioCommissions)

NextScenario == Eval \/ InitReturn \/ HookCall \/ HookReturn

SpecScenario == InitScenario /\ [][NextScenario]_vars

Abs(n) == IF n < 0 THEN -n ELSE n

\* The float x is within tol grid steps of the rational number n/d (d > 0).
Near(x, n, d, tol) == ~isnan(x) /\ Abs(V(x) * d - n * SCALE) <= tol * d

\* The commission rate of a run as the fraction Rate/SCALE, and 1 + the rate
\* as OnePlusRate/SCALE.
Rate == V(commission)
OnePlusRate == SCALE + Rate
OnePercent == Rate * 100 = SCALE

\* What rounding the size of a position to the grid can do to a value that is
\* a few hundred times the size.
Rounding == 2 * SCALE

\* C14: scenario A.  With cash 10000, commission rate c and closing prices
\* 100, 200, 300, opening with the size omitted at 100 in step 0 and closing
\* at 300 in step 2 yields exactly one Trade and no open position; up to the
\* rounding of the size the Trade has position_size 10000/(100(1+c)),
\* profit_loss 200 times that, trade_commission 400c times that and
\* cumulative_return 10000 + profit_loss - trade_commission, and the equity
\* series is 100, 200 and 300(1-c) times the size.  At c = 0.01 these are
\* position_size 10000/101, profit_loss 2000000/101 (about 19801.98),
\* trade_commission 40000/101 (about 396.04), cumulative_return 2970000/101
\* (about 29405.94) and the equity series about [9900.99, 19801.98, 29405.94].
C14_ScenarioA ==
    (records = SINGLE_ASSET_DATA /\ pc = "Finished") =>
        /\ Len(trades) = 1 /\ open_positions = <<>> /\ Len(returns) = 3
        /\ LET t == trades[1] IN
            /\ t.open_date = index[1] /\ t.close_date = index[3]
            /\ t.open_price = Num(100) /\ t.close_price = Num(300)
            /\ t.change_pct = Num(200)
            /\ Near(t.position_size, 100 * SCALE, OnePlusRate, Tolerance)
            /\ Near(t.profit_loss, 20000 * SCALE, OnePlusRate, Rounding)
            /\ Near(t.trade_commission, 40000 * Rate, OnePlusRate, Rounding)
            /\ Near(t.cumulative_return,
                    10000 * OnePlusRate + 20000 * SCALE - 40000 * Rate,
                    OnePlusRate, Rounding)
            /\ cumulative_return = t.cumulative_return
            /\ Near(returns[1], 10000 * SCALE, OnePlusRate, Rounding)
            /\ Near(returns[2], 20000 * SCALE, OnePlusRate, Rounding)
            /\ Near(returns[3], 30000 * (SCALE - Rate), OnePlusRate, Rounding)
            /\ OnePercent =>
                /\ Near(t.position_size, 10000, 101, Tolerance)
                /\ Near(t.profit_loss, 2000000, 101, Tolerance)
                /\ Near(t.trade_commission, 40000, 101, Tolerance)
                /\ Near(t.cumulative_return, 2970000, 101, Tolerance)
                /\ Near(returns[1], 990099, 100, Tolerance)
                /\ Near(returns[2], 1980198, 100, Tolerance)
                /\ Near(returns[3], 2940594, 100, Tolerance)

\* C14 witness: the run of scenario A at a commission of 0.01 has finished,
\* with its one Trade made at a profit.
C14_Witness ==
    /\ records = SINGLE_ASSET_DATA /\ pc = "Finished" /\ OnePercent
    /\ Len(trades) = 1 /\ Gt(trades[1].profit_loss, Num(19801))
    /\ Gt(trades[1].trade_commission, Num(396))

\* C15: scenario B.  With cash 10000, commission rate c, closes A = 100,
\* 200, 300 and B = 2840, 2815, 2810, opening 10 units of A at 100 in step 0
\* and 1 unit of B at 2835 in step 1 and closing A by instrument at 300 in
\* step 2 yields one Trade for A with profit_loss 2000, trade_commission
\* 4000c and cumulative_return 12000 - 4000c, one open position for B with
\* last_price 2810, profit_loss -25 and current_value 2810, and the equity
\* series [10000 - 1000c, 10980 - 3835c, 11975 - 6835c].  At c = 0.01 these
\* are trade_commission 40, cumulative_return 11960 and the equity series
\* [9990.00, 10941.65, 11906.65].
C15_ScenarioB ==
    (records = MULTIPLE_ASSETS_DATA /\ pc = "Finished") =>
        /\ Len(trades) = 1 /\ Len(open_positions) = 1 /\ Len(returns) = 3
        /\ LET t == trades[1]
               b == objects[open_positions[1]]
           IN
            /\ t.symbol = "AAA" /\ t.position_size = Num(10)
            /\ t.open_date = index[1] /\ t.close_date = index[3]
            /\ t.open_price = Num(100) /\ t.close_price = Num(300)
            /\ t.profit_loss = Num(2000)
            /\ Near(t.trade_commission, 4000 * Rate, SCALE, Tolerance)
            /\ Near(t.cumulative_return, 12000 * SCALE - 4000 * Rate, SCALE, Tolerance)
            /\ cumulative_return = t.cumulative_return
            /\ b.symbol = "BBB" /\ b.position_size = Num(1)
            /\ b.open_date = index[2] /\ b.last_date = index[3]
            /\ b.open_price = Num(2835) /\ b.last_price = Num(2810)
            /\ b.profit_loss = Num(-25) /\ b.current_value = Num(2810)
            /\ Near(returns[1], 10000 * SCALE - 1000 * Rate, SCALE, Tolerance)
            /\ Near(returns[2], 10980 * SCALE - 3835 * Rate, SCALE, Tolerance)
            /\ Near(returns[3], 11975 * SCALE - 6835 * Rate, SCALE, Tolerance)
            /\ OnePercent =>
                /\ t.trade_commission = Num(40)
                /\ t.cumulative_return = Num(11960)
                /\ Near(returns[1], 999000, 100, 0)
                /\ Near(returns[2], 1094165, 100, 0)
                /\ Near(returns[3], 1190665, 100, 0)

\* C15 witness: the run of scenario B at a commission of 0.01 has finished
\* with A closed at a profit and B open at a loss.
C15_Witness ==
    /\ records = MULTIPLE_ASSETS_DATA /\ pc = "Finished" /\ OnePercent
    /\ Len(trades) = 1 /\ trades[1].symbol = "AAA" /\ Gt(trades[1].profit_loss, Zero)
    /\ Len(open_positions) = 1 /\ Lt(objects[open_positions[1]].profit_loss, Zero)

\* C16: every position, in every reachable state (right after open, after
\* each mark-to-market, skipped ones included, and at close), satisfies
\* current_value = open_price*position_size + profit_loss, profit_loss =
\* (last_price - open_price)*position_size and change_pct =
\* (last_price/open_price - 1)*100; right after a successful open
\* current_value = open_price*position_size, profit_loss = 0 and
\* change_pct = 0.
C16_PositionInvariants ==
    /\ \A id \in Handles :
           LET p == objects[id] IN
               /\ p.profit_loss = Mul(Sub(p.last_price, p.open_price), p.position_size)
               /\ p.current_value = Add(Mul(p.open_price, p.position_size), p.profit_loss)
               /\ p.change_pct = Mul(Sub(Div(p.last_price, p.open_price), One), Hundred)
    /\ (last.op = "open" /\ last.ret = "True") =>
           LET p == objects[Len(objects)] IN
               /\ p.current_value = Mul(p.open_price, p.position_size)
               /\ p.profit_loss = Zero
               /\ p.change_pct = Zero

\* C16 witness: a step has ended whose mark-to-market skipped an open
\* position that an earlier step had marked away from its opening price.
C16_Witness ==
    /\ StepEnded
    /\ \E id \in Range(open_positions) :
           /\ objects[id].last_date # index[Len(returns)]
           /\ objects[id].profit_loss # Zero
           /\ ~Gt(StepClose(id), Zero)

\* C17: the tracked open-position value is 0 on a fresh engine and, after
\* every completed open, close (by handle or by instrument) and per-step
\* mark-to-market, equals the sum of current_value over the open set; in
\* particular it is 0 whenever the open set is empty.
C17_AsClaimed ==
    /\ pc # "raised" => cash_stock_value = SumOfValues(OpenSet)
    /\ open_positions = <<>> => cash_stock_value = Zero

\* The prices and timestamps update is applied with: the halves up to
\* MaxMark / 2, at the first and the last date of a run.
MarkPrices == {F(k * (SCALE \div 2)) : k \in 1..MaxMark}
MarkDates == {1, MaxSteps + 1}

\* C18: update is idempotent: applied to any position with the same
\* (timestamp, price), price > 0, a second time, it leaves every field as
\* the first application set it.
C18_UpdateIdempotent ==
    \A id \in Handles : \A last_date \in MarkDates : \A last_price \in MarkPrices :
        Gt(last_price, Zero) =>
            LET once == update(objects[id], last_date, last_price)
            IN  /\ update(once, last_date, last_price) = once
                /\ once.last_date = last_date /\ once.last_price = last_price

\* C18 witness: a position bought at a fractional size has been closed at a
\* profit and update has then been applied to it a second time with the
\* same timestamp and price, by a second close with the same handle: the
\* two log entries built from it differ in the running total only.
C18_Witness ==
    /\ last.op = "close" /\ last.position \in StaleHandles
    /\ Len(trades) >= 2
    /\ trades[Len(trades)] =
           [trades[Len(trades) - 1] EXCEPT
                !.cumulative_return = trades[Len(trades)].cumulative_return]
    /\ Gt(trades[Len(trades)].profit_loss, Zero)
    /\ objects[last.position].position_size \notin {Num(k) : k \in 0..MaxMark}

(***************************************************************************)
(* SpecRuns: Backtest.run is called up to MaxRuns times on one driver,     *)
(* with the strategies of SpecScenario.                                    *)
(***************************************************************************)
\* The attributes Strategy.__init__ gives a new instance.
Strategy_init ==
    [date |-> NoDate, cash |-> Zero, commission |-> Zero, returns |-> <<>>,
     trades |-> <<>>, objects |-> <<>>, open_positions |-> <<>>,
     cumulative_return |-> Zero, cash_stock_value |-> Zero]

\* Mutant of run: the cash is left as the last run left it.
run_keeps_the_cash(b) ==
    [Strategy_init EXCEPT !.cash = cash, !.commission = b.commission]

\* Backtest.run up to the call of __eval: a new instance with the driver's
\* cash and commission.
run(b) ==
    [Strategy_init EXCEPT !.cash = b.cash, !.commission = b.commission]

\* The Result __eval returns: the equity series by date, the trade log and
\* the positions still open.
Result(data, log, positions) ==
    [returns |-> [k \in 1..Len(data) |-> <<index[k], data[k]>>],
     trades |-> log, open_positions |-> positions]

\* __eval returns its Result to the caller of run.
Return ==
    /\ pc = "Finished"
    /\ results' = Append(results, Result(returns, trades, OpenSet))
    /\ pc' = "Returned"
    /\ last' = NoCall
    /\ UNCHANGED <<cash, commission, date, cumulative_return, cash_stock_value,
                   objects, open_positions, trades, returns, records, index,
                   i, calls, ncalls, backtest>>

\* run is called again on the same driver.
RunAgain ==
    /\ pc = "Returned"
    /\ Len(results) < MaxRuns
    /\ LET strategy == run(backtest) IN
        /\ cash' = strategy.cash
        /\ commission' = strategy.commission
        /\ date' = strategy.date
        /\ cumulative_return' = strategy.cumulative_return
        /\ cash_stock_value' = strategy.cash_stock_value
        /\ objects' = strategy.objects
        /\ open_positions' = strategy.open_positions
        /\ trades' = strategy.trades
        /\ returns' = strategy.returns
    /\ pc' = "NotStarted"
    /\ i' = 0
    /\ calls' = <<>>
    /\ ncalls' = 0
    /\ last' = NoCall
    /\ UNCHANGED <<records, index, backtest, results>>

NextRuns == NextScenario \/ Return \/ RunAgain

SpecRuns == InitScenario /\ [][NextRuns]_vars

\* C19: every call of run starts from a new engine with the driver's cash
\* and commission and an empty open set, trade log and equity series, and
\* the calls of run on one driver with one deterministic strategy return
\* equal Results, each with an equity series of one entry per record.
C19_RunsAreIndependent ==
    /\ pc = "NotStarted" =>
           /\ cash = backtest.cash /\ commission = backtest.commission
           /\ open_positions = <<>> /\ trades = <<>> /\ returns = <<>>
           /\ objects = <<>> /\ cash_stock_value = Zero
    /\ \A j, k \in 1..Len(results) : results[j] = results[k]
    /\ \A k \in 1..Len(results) : Len(results[k].returns) = Len(records)

\* C19 witness: the second run on a driver has returned, after a first run
\* that spent cash, closed a position and left another open.
C19_Witness ==
    /\ pc = "Returned" /\ Len(results) >= 2
    /\ results[1].trades # <<>> /\ results[1].open_positions # <<>>
    /\ cash # backtest.cash

\* C20: once __eval has set it to the cash, cumulative_return changes, and
\* the trade log changes, only in a close that succeeds in closing a
\* position: an open (successful or failed), a failed close, a close that
\* matches nothing and the per-step mark-to-market leave both as they are;
\* a close appends to the end of the log and leaves the entries already in
\* it as they are.
C20_AsClaimed ==
    [][pc # "NotStarted" =>
          /\ Len(trades') >= Len(trades)
          /\ SubSeq(trades', 1, Len(trades)) = trades
          /\ \/ /\ last'.op = "close" /\ last'.ret = "True"
                /\ Len(open_positions') < Len(open_positions)
             \/ /\ trades' = trades
                /\ cumulative_return' = cumulative_return]_vars

\* C21: a close with an explicit position handle that succeeds removes that
\* position, by identity, from the open set and no other, also when another
\* open position has the same field values: afterwards the handle's
\* position is not in the open set and every other position still is, in
\* its place.
C21_AsClaimed ==
    [][ClosedByHandle =>
        /\ last'.position \notin Range(open_positions')
        /\ \A id \in Range(open_positions) \ {last'.position} :
               id \in Range(open_positions')
        /\ Len(open_positions') = Len(open_positions) - 1
       ]_vars

\* C22: timestamps follow the step loop.  A position's open_date is the
\* timestamp of the step it was opened in and a Trade's close_date that of
\* the step it was closed in, so no Trade opens after it closes and the
\* log is in non-decreasing order of close step; an open position's
\* last_date is not before its open_date and not after the current step.
C22_TimestampsFollowSteps ==
    /\ [](/\ \A k \in 1..Len(trades) : trades[k].open_date <= trades[k].close_date
          /\ \A j, k \in 1..Len(trades) :
                 j <= k => trades[j].close_date <= trades[k].close_date
          /\ \A id \in Range(open_positions) :
                 /\ objects[id].open_date <= objects[id].last_date
                 /\ objects[id].last_date <= date)
    /\ [][/\ pc = "next" => date = index[i + 1]
          /\ (last'.op = "open" /\ last'.ret = "True") =>
                 objects'[Len(objects')].open_date = index[i + 1]
          /\ \A k \in (Len(trades) + 1)..Len(trades') :
                 trades'[k].close_date = index[i + 1]]_vars

\* C22 witness: the log holds two Trades closed in different steps, the
\* later one for a position held from one step into the next.
C22_Witness ==
    /\ Len(trades) = 2
    /\ trades[1].close_date < trades[2].close_date
    /\ trades[2].open_date < trades[2].close_date

(***************************************************************************)
(* SpecRates: the engine with commission rates over the whole of [0, 1]    *)
(* and prices that are not whole numbers.                                  *)
(***************************************************************************)
Tenths(k) == F(k * (SCALE \div 10))
RateCash == {One}
Rates == {Zero, F(SCALE \div 2), One}
RatePrices == {Tenths(3), Tenths(5), Tenths(7)}
RateSizes == {None, Some(One)}

InitRates == ConstructWith(RateCash, QuotedFrames, Rates)

NextRates ==
    \/ Run
    \/ \E price \in RatePrices, size \in RateSizes : CallOpen(price, size, NoSymbol)
    \/ \E price \in RatePrices : CallClose(price, NoSymbol, NoPosition)

SpecRates == InitRates /\ [][NextRates]_vars

\* C23: from an initial cash >= 0 and a commission rate in [0, 1] the cash
\* is never negative, in any state reached by opens, closes and run steps.
C23_AsClaimed == Le(Zero, cash)

\* The sum over a sequence of positions of open_price*position_size*(1+commission).
RECURSIVE SumOfCosts(_)
SumOfCosts(ps) ==
    IF ps = <<>> THEN Zero
    ELSE Add(NominalCost(Head(ps).position_size, Head(ps).open_price),
             SumOfCosts(Tail(ps)))

\* The grid steps the rounding of the products of the positions constructed
\* so far can have put between two sides of a balance.
LedgerSlack == Tolerance * (Len(objects) + 1)

\* C24: at every point of a run between operations cumulative_return is,
\* up to the rounding of the products, the cash plus the sum over the open
\* positions of open_price*position_size*(1+commission); in particular
\* with an empty open set cash and cumulative_return agree and the step's
\* total equity is the cash.
C24_AsClaimed ==
    pc # "NotStarted" =>
        /\ ~isnan(cash) /\ ~isnan(cumulative_return)
        /\ Abs(V(cumulative_return) - V(Add(cash, SumOfCosts(OpenSet)))) <= LedgerSlack
        /\ (open_positions = <<>> /\ StepEnded) => returns[Len(returns)] = cash

====
